---- MODULE Spec2Model ----
(***************************************************************************)
(* Model of the cart store of src/hooks/useCart.tsx (CartProvider).        *)
(*                                                                         *)
(* The cart is a React state holding an array of Product objects.  The     *)
(* handlers copy the array ([...cart]) but not the objects in it, so an    *)
(* assignment productExists.amount = amount writes an object that every    *)
(* array holding it shares.  The model therefore keeps the objects in a    *)
(* heap and the arrays as sequences of references into it.                 *)
(*                                                                         *)
(* addProduct and updateProductAmount are async: each await is a point     *)
(* where other handlers run.  An invocation is a record in ops, whose pc   *)
(* says at which await it is suspended.                                    *)
(***************************************************************************)
EXTENDS Integers, Sequences, FiniteSets, TLC

\* ---------------------------------------------------------------- bounds
MaxStock == 2   \* the stock service answers amounts 0..MaxStock
MaxCalls == 2   \* handler invocations in one behaviour

\* the products of the catalog: one the operation is about, and another one
Products == {1, 2}
StockAmounts == 0..MaxStock
\* the amounts a caller passes to updateProductAmount: 0 is the decrement of
\* an item of amount 1; the stock decides which of the others exceed it
Amounts == -1..MaxStock

\* ------------------------------------------------------------ vocabulary
\* localStorage holds at most one value under the key '@RocketShoes:cart':
\* the store is <<>> when the key is absent (getItem answers null) and
\* <<text>> when it holds text
NULL == <<>>

OutOfStockMsg   == "Quantidade solicitada fora de estoque"
AddErrorMsg     == "Erro na adicao do produto"
RemoveErrorMsg  == "Erro na remocao do produto"
UpdateErrorMsg  == "Erro na alteracao de quantidade do produto"

NoResponse == -1    \* the step delivered no answer of the stock service

VARIABLES
  heap,         \* the Product objects: heap[r] is the object of reference r
  cart,         \* the React state `cart`: a sequence of references
  storage,      \* localStorage, as far as the key '@RocketShoes:cart' goes
  ops,          \* the suspended handler invocations, in invocation order
  calls,        \* how many handlers have been invoked
  stockAmount,  \* stock.data.amount of the answer the last step delivered
  returned      \* <<the invocation that returned in the last step>>, or <<>>

vars == <<heap, cart, storage, ops, calls, stockAmount, returned>>

\* -------------------------------------------------------- pure functions
\* GET /products/p: the product's data, without an amount
Catalog(p) == [id |-> p, title |-> 10 * p]

\* {...product.data, amount: 1}
NewProduct(data) == [id |-> data.id, title |-> data.title, amount |-> 1]

\* JSON.stringify(updatedCart): the objects' values, in array order
JSONStringify(arr, h) == [k \in 1..Len(arr) |-> h[arr[k]]]

\* JSON.parse(storagedCart): fresh objects (the heap) and the array of them
JSONParseHeap(text) == text
JSONParseNothing(text) == <<>>
JSONParseArray(text) == [k \in 1..Len(text) |-> k]

\* localStorage.setItem(key, text) and the text getItem answers
SetItem(text) == <<text>>
GetItem(store) == store[1]

\* `if (storagedCart)`: null is falsy; a serialized array is never empty text
Truthy(store) == store # NULL

\* Array.prototype.findIndex(product => product.id === productId): 0-based,
\* -1 when no element matches
RECURSIVE FindFrom(_, _, _, _)
FindFrom(arr, h, productId, k) ==
  IF k > Len(arr) THEN -1
  ELSE IF h[arr[k]].id = productId THEN k - 1
  ELSE FindFrom(arr, h, productId, k + 1)

FindIndex(arr, h, productId) == FindFrom(arr, h, productId, 1)

\* Array.prototype.find(...): the reference of the first match, 0 (undefined)
\* when there is none
NoRef == 0
FindLast(arr, h, productId) ==
  LET i == FindIndex(arr, h, productId)
  IN IF i >= 0 THEN arr[i + 1]
     ELSE IF arr # <<>> THEN arr[Len(arr)] ELSE NoRef
Find(arr, h, productId) ==
  LET i == FindIndex(arr, h, productId)
  IN IF i >= 0 THEN arr[i + 1] ELSE NoRef

\* Array.prototype.splice(start, 1): a negative start counts from the end
SpliceMut(arr, start) ==
  [k \in 1..(Len(arr) - 1) |-> arr[k]]
Splice(arr, start) ==
  LET s == IF start < 0 THEN (IF Len(arr) + start < 0 THEN 0 ELSE Len(arr) + start)
           ELSE start
  IN IF s >= Len(arr) THEN arr
     ELSE [k \in 1..(Len(arr) - 1) |-> IF k <= s THEN arr[k] ELSE arr[k + 1]]

\* ------------------------------------------------------------ the guards
\* line 50: productExists ? productExists.amount : 0
CurrentAmount(productExists, h) ==
  IF productExists # NoRef THEN h[productExists].amount ELSE 0

\* line 52: currentAmount + 1
DesiredAmountMut(currentAmount) == currentAmount + 2
DesiredAmount(currentAmount) == currentAmount + 1

\* line 55: amount > stockAmount
ExceedsStockMut(amount, available) == amount > available + 1
ExceedsStock(amount, available) == amount > available

\* line 118: amount > stockAmount
RequestExceedsStockMut(amount, available) == amount >= available + 2
RequestExceedsStock(amount, available) == amount > available

\* line 93: productIndex >= 0
IndexFoundMut(productIndex) == productIndex >= -1
IndexFound(productIndex) == productIndex >= 0

\* line 111: amount <= 0
NotPositiveMut(amount) == amount < 0
NotPositive(amount) == amount <= 0

\* line 62: productExists.amount = amount
SetAmountOfCopy(h, ref, amount) == h
SetAmount(h, ref, amount) == [h EXCEPT ![ref].amount = amount]

\* line 127: productExists.amount = amount
UpdateAmountMut(h, ref, amount) == [h EXCEPT ![ref].amount = amount + 1]
UpdateAmount(h, ref, amount) == [h EXCEPT ![ref].amount = amount]

\* ------------------------------------------------------------ invocations
\* One handler invocation: its arguments, the variables of its closure that
\* live across an await, the await it is suspended at, and what it reports.
\* `caught` is the exception its catch block received, `wrote` whether it
\* called localStorage.setItem, `settled` how the caller sees it end (an
\* async handler's promise, a plain return or throw of removeProduct), and
\* `overlapped` whether another handler ran between its invocation and its
\* return. `before` is the amount the cart showed for the product when an
\* addProduct was invoked (0 when absent): no statement of the handler reads
\* it, it is kept for the properties about overlapping additions. `removed`
\* is set at the return: the product was in the handler's copy of the cart
\* and no longer in the cart it returned over.
Invocation(kind, productId, amount, arr, productExists, pc) ==
  [kind |-> kind, productId |-> productId, amount |-> amount,
   cart |-> arr, productExists |-> productExists, pc |-> pc,
   toasts |-> <<>>, caught |-> "none", wrote |-> FALSE,
   settled |-> "pending", overlapped |-> FALSE, before |-> 0,
   removed |-> FALSE]

Overlap(op) == [op EXCEPT !.overlapped = TRUE]

\* a handler is invoked while others are suspended: all of them overlap
Suspended == [k \in 1..Len(ops) |-> Overlap(ops[k])]
Invoked(op) == IF ops # <<>> THEN Overlap(op) ELSE op

\* the suspended invocations without the i-th
Others(i) == [k \in 1..(Len(ops) - 1) |-> IF k < i THEN ops[k] ELSE ops[k + 1]]

\* the handler returns: its locals are gone
Return(op) ==
  [op EXCEPT !.pc = "done", !.cart = <<>>, !.productExists = NoRef,
             !.settled = "fulfilled",
             !.removed =
               /\ \E k \in 1..Len(op.cart) : heap[op.cart[k]].id = op.productId
               /\ \A k \in 1..Len(cart) : heap[cart[k]].id # op.productId]

\* toast.error(msg), then the handler returns (ToastAndThrow: it throws
\* instead, and its catch block reports a second time)
ToastAndThrow(op, msg) == [Return(op) EXCEPT !.toasts = <<msg, msg>>]
ToastAndReturn(op, msg) == [Return(op) EXCEPT !.toasts = Append(op.toasts, msg)]

\* the catch block: toast.error(msg); the exception ends there
CatchAndRethrow(op, what, msg) ==
  [ToastAndReturn(op, msg) EXCEPT !.caught = what, !.settled = "rejected"]
Catch(op, what, msg) == [ToastAndReturn(op, msg) EXCEPT !.caught = what]

\* setCart(updatedCart); localStorage.setItem(key, JSON.stringify(updatedCart))
\* `written` is FALSE when setItem throws (quota exceeded, storage disabled):
\* the state is already set, and the catch block reports msg
SetCartAndPersistStale(op, updatedCart, h, written, msg) ==
  /\ heap' = h
  /\ cart' = updatedCart
  /\ storage' = IF written THEN SetItem(JSONStringify(cart, heap)) ELSE storage
  /\ returned' = <<IF written THEN Return([op EXCEPT !.wrote = TRUE])
                   ELSE Catch([op EXCEPT !.wrote = TRUE], "storage", msg)>>
SetCartAndPersist(op, updatedCart, h, written, msg) ==
  /\ heap' = h
  /\ cart' = updatedCart
  /\ storage' = IF written THEN SetItem(JSONStringify(updatedCart, h)) ELSE storage
  /\ returned' = <<IF written THEN Return([op EXCEPT !.wrote = TRUE])
                   ELSE Catch([op EXCEPT !.wrote = TRUE], "storage", msg)>>

\* ------------------------------------------------------------- addProduct
\* lines 39-46: copy the array, look the product up, request its stock
AddProduct(productId) ==
  /\ calls < MaxCalls
  /\ calls' = calls + 1
  /\ ops' = Append(Suspended,
                   Invoked([Invocation("add", productId, 0, cart,
                                       Find(cart, heap, productId), "stock")
                              EXCEPT !.before =
                                CurrentAmount(Find(cart, heap, productId), heap)]))
  /\ stockAmount' = NoResponse
  /\ returned' = <<>>
  /\ UNCHANGED <<heap, cart, storage>>

\* lines 46-62, 76-77: the stock service answers `answer`
AddStockResolved(i, answer, written) ==
  /\ i \in 1..Len(ops) /\ ops[i].kind = "add" /\ ops[i].pc = "stock"
  /\ stockAmount' = answer
  /\ LET op == ops[i]
         currentAmount == CurrentAmount(op.productExists, heap)
         amount == DesiredAmount(currentAmount)
     IN IF ExceedsStock(amount, answer)
        THEN /\ returned' = <<ToastAndReturn(op, OutOfStockMsg)>>
             /\ ops' = Others(i)
             /\ UNCHANGED <<heap, cart, storage>>
        ELSE IF op.productExists # NoRef
        THEN /\ SetCartAndPersist(op, op.cart,
                                  SetAmount(heap, op.productExists, amount),
                                  written, AddErrorMsg)
             /\ ops' = Others(i)
        ELSE /\ ops' = [ops EXCEPT ![i].pc = "catalog"]
             /\ returned' = <<>>
             /\ UNCHANGED <<heap, cart, storage>>
  /\ UNCHANGED calls

\* line 46 rejects (network error, 404): the catch block
AddStockRejected(i) ==
  /\ i \in 1..Len(ops) /\ ops[i].kind = "add" /\ ops[i].pc = "stock"
  /\ returned' = <<Catch(ops[i], "stock", AddErrorMsg)>>
  /\ ops' = Others(i)
  /\ stockAmount' = NoResponse
  /\ UNCHANGED <<heap, cart, storage, calls>>

\* line 74: updatedCart.push(newProduct), on the copy made on line 41
PushOntoState(updatedCart, ref) == Append(cart, ref)
Push(updatedCart, ref) == Append(updatedCart, ref)

\* lines 65-77: the product's data arrives; a new object is pushed
AddCatalogResolved(i, written) ==
  /\ i \in 1..Len(ops) /\ ops[i].kind = "add" /\ ops[i].pc = "catalog"
  /\ LET newProduct == NewProduct(Catalog(ops[i].productId))
         h == Append(heap, newProduct)
         updatedCart == Push(ops[i].cart, Len(h))
     IN SetCartAndPersist(ops[i], updatedCart, h, written, AddErrorMsg)
  /\ ops' = Others(i)
  /\ stockAmount' = NoResponse
  /\ UNCHANGED calls

\* line 65 rejects: the catch block
AddCatalogRejected(i) ==
  /\ i \in 1..Len(ops) /\ ops[i].kind = "add" /\ ops[i].pc = "catalog"
  /\ returned' = <<Catch(ops[i], "catalog", AddErrorMsg)>>
  /\ ops' = Others(i)
  /\ stockAmount' = NoResponse
  /\ UNCHANGED <<heap, cart, storage, calls>>

\* ---------------------------------------------------------- removeProduct
\* lines 85-103: synchronous, one step
RemoveProduct(productId, written) ==
  /\ calls < MaxCalls
  /\ calls' = calls + 1
  /\ ops' = Suspended
  /\ stockAmount' = NoResponse
  /\ LET updatedCart == cart
         productIndex == FindIndex(updatedCart, heap, productId)
         op == Invoked(Invocation("remove", productId, 0, <<>>, NoRef, "done"))
     IN IF IndexFound(productIndex)
        THEN SetCartAndPersist(op, Splice(updatedCart, productIndex), heap,
                               written, RemoveErrorMsg)
        ELSE /\ returned' = <<Catch(op, "notfound", RemoveErrorMsg)>>
             /\ UNCHANGED <<heap, cart, storage>>

\* ---------------------------------------------------- updateProductAmount
\* lines 109-115: the guard on the amount, then the stock request; `cart` is
\* the state of the render that created the handler
UpdateProductAmount(productId, amount) ==
  /\ calls < MaxCalls
  /\ calls' = calls + 1
  /\ stockAmount' = NoResponse
  /\ IF NotPositive(amount)
     THEN /\ ops' = Suspended
          /\ returned' =
               <<Return(Invoked(Invocation("update", productId, amount, <<>>,
                                           NoRef, "done")))>>
     ELSE /\ ops' = Append(Suspended,
                           Invoked(Invocation("update", productId, amount, cart,
                                              NoRef, "stock")))
          /\ returned' = <<>>
  /\ UNCHANGED <<heap, cart, storage>>

\* line 123: [...cart], `cart` being the state of the render that created
\* the handler, not the latest state
SpreadOfLatest(arr) == cart
Spread(arr) == arr

\* lines 115-132: the stock service answers `answer`
UpdateStockResolved(i, answer, written) ==
  /\ i \in 1..Len(ops) /\ ops[i].kind = "update" /\ ops[i].pc = "stock"
  /\ stockAmount' = answer
  /\ LET op == ops[i]
         updatedCart == Spread(op.cart)
         productExists == Find(updatedCart, heap, op.productId)
     IN IF RequestExceedsStock(op.amount, answer)
        THEN /\ returned' = <<ToastAndReturn(op, OutOfStockMsg)>>
             /\ UNCHANGED <<heap, cart, storage>>
        ELSE IF productExists # NoRef
        THEN SetCartAndPersist(op, updatedCart,
                               UpdateAmount(heap, productExists, op.amount),
                               written, UpdateErrorMsg)
        ELSE /\ returned' = <<Catch(op, "notfound", UpdateErrorMsg)>>
             /\ UNCHANGED <<heap, cart, storage>>
  /\ ops' = Others(i)
  /\ UNCHANGED calls

\* line 115 rejects: the catch block
UpdateStockRejected(i) ==
  /\ i \in 1..Len(ops) /\ ops[i].kind = "update" /\ ops[i].pc = "stock"
  /\ returned' = <<Catch(ops[i], "stock", UpdateErrorMsg)>>
  /\ ops' = Others(i)
  /\ stockAmount' = NoResponse
  /\ UNCHANGED <<heap, cart, storage, calls>>

\* ------------------------------------------------------------------ start
\* the carts a previous session can have persisted: distinct ids, amounts >= 1
RECURSIVE SeqsUpTo(_, _)
SeqsUpTo(S, n) ==
  IF n = 0 THEN {<<>>}
  ELSE LET shorter == SeqsUpTo(S, n - 1)
       IN shorter \cup {Append(q, x) : q \in shorter, x \in S}

PersistedItems ==
  {[id |-> p, title |-> Catalog(p).title, amount |-> a] :
     p \in Products, a \in 1..MaxStock}

PersistedCarts ==
  {q \in SeqsUpTo(PersistedItems, Cardinality(Products)) :
     \A j, k \in 1..Len(q) : j # k => q[j].id # q[k].id}

\* lines 30-35: the objects and the array the useState initializer makes of
\* what the storage holds
InitialHeap(store) == IF Truthy(store) THEN JSONParseHeap(GetItem(store)) ELSE <<>>
InitialCart(store) == IF Truthy(store) THEN JSONParseArray(GetItem(store)) ELSE <<>>

\* lines 25-36: the useState initializer
Init ==
  /\ storage \in {NULL} \cup {SetItem(text) : text \in PersistedCarts}
  /\ heap = InitialHeap(storage)
  /\ cart = InitialCart(storage)
  /\ ops = <<>>
  /\ calls = 0
  /\ stockAmount = NoResponse
  /\ returned = <<>>

\* the page is reloaded: the provider and its suspended handlers are gone,
\* and a new provider runs the useState initializer (lines 25-36)
Remount ==
  /\ heap' = InitialHeap(storage)
  /\ cart' = InitialCart(storage)
  /\ ops' = <<>>
  /\ stockAmount' = NoResponse
  /\ returned' = <<>>
  /\ UNCHANGED <<storage, calls>>

\* the outcomes of localStorage.setItem: TRUE it stores, FALSE it throws
SetItemOutcomes == BOOLEAN

\* what GET /stock/:id can answer for each product: any amount
AnyStock == [p \in Products |-> StockAmounts]

\* the handlers of one provider, invoked and resumed in any order
Handlers(outcomes, stock) ==
  \/ \E p \in Products : AddProduct(p)
  \/ \E i \in 1..MaxCalls, written \in outcomes :
       /\ i <= Len(ops)
       /\ \E answer \in stock[ops[i].productId] :
            AddStockResolved(i, answer, written)
  \/ \E i \in 1..MaxCalls : AddStockRejected(i)
  \/ \E i \in 1..MaxCalls, written \in outcomes : AddCatalogResolved(i, written)
  \/ \E i \in 1..MaxCalls : AddCatalogRejected(i)
  \/ \E p \in Products, written \in outcomes : RemoveProduct(p, written)
  \/ \E p \in Products, a \in Amounts : UpdateProductAmount(p, a)
  \/ \E i \in 1..MaxCalls, written \in outcomes :
       /\ i <= Len(ops)
       /\ \E answer \in stock[ops[i].productId] :
            UpdateStockResolved(i, answer, written)
  \/ \E i \in 1..MaxCalls : UpdateStockRejected(i)

Step(outcomes, stock) ==
  \/ Handlers(outcomes, stock)
  \/ Remount

Next == Step(SetItemOutcomes, AnyStock)

Spec == Init /\ [][Next]_vars

\* the behaviours in which localStorage.setItem never throws
NextStored == Step({TRUE}, AnyStock)

SpecStored == Init /\ [][NextStored]_vars

\* the behaviours in which the stock can also answer one more than any
\* amount a stored cart starts with, so that two additions to a stored item
\* can both pass line 55
AmpleStock == [p \in Products |-> 0..(MaxStock + 1)]

NextAmple == Step(SetItemOutcomes, AmpleStock)

SpecAmple == Init /\ [][NextAmple]_vars

\* the behaviours in which the stock of a product never changes (product 1
\* has one unit less than product 2) and the cart starts within it
FixedStock == [p \in Products |-> {IF p = 1 THEN MaxStock - 1 ELSE MaxStock}]

InitFixedStock ==
  /\ Init
  /\ \A k \in 1..Len(cart) : \E available \in FixedStock[heap[cart[k]].id] :
       heap[cart[k]].amount <= available

NextFixedStock == Step(SetItemOutcomes, FixedStock)

SpecFixedStock == InitFixedStock /\ [][NextFixedStock]_vars

\* the request of line 46 or 115 of the i-th suspended handler is answered
\* or rejects
StockFetchSettles(i) ==
  \/ \E written \in SetItemOutcomes :
       /\ i <= Len(ops)
       /\ \E answer \in FixedStock[ops[i].productId] :
            \/ AddStockResolved(i, answer, written)
            \/ UpdateStockResolved(i, answer, written)
  \/ AddStockRejected(i)
  \/ UpdateStockRejected(i)

\* the request of line 65 of the i-th suspended handler is answered or rejects
\* (CatalogFetchHangs: it does neither)
CatalogFetchHangs(i) == FALSE /\ AddCatalogRejected(i)
CatalogFetchSettles(i) ==
  \/ \E written \in SetItemOutcomes : AddCatalogResolved(i, written)
  \/ AddCatalogRejected(i)

\* the request the i-th suspended handler awaits is answered or rejects
FetchSettles(i) == StockFetchSettles(i) \/ CatalogFetchSettles(i)

\* one session of the provider, without reload, in which no request hangs
\* (and the stock of a product does not change; the stored cart it starts
\* from may exceed it)
NextSession == Handlers(SetItemOutcomes, FixedStock)

SpecFair ==
  /\ Init
  /\ [][NextSession]_vars
  /\ \A i \in 1..MaxCalls : WF_vars(FetchSettles(i))

\* ============================================================ properties
\* what a consumer of the context reads: the cart as a sequence of items
CartItems == [k \in 1..Len(cart) |-> heap[cart[k]]]

\* the items of an array of a handler's closure, as they are now
ItemsOf(arr) == [k \in 1..Len(arr) |-> heap[arr[k]]]

\* the positions of product p in a sequence of items
PositionsOf(items, p) == {k \in 1..Len(items) : items[k].id = p}
Has(items, p) == PositionsOf(items, p) # {}
PositionOf(items, p) == CHOOSE k \in PositionsOf(items, p) :
                          \A j \in PositionsOf(items, p) : k <= j
AmountOf(items, p) == IF Has(items, p) THEN items[PositionOf(items, p)].amount ELSE 0

\* a sequence of items without its k-th
Without(items, k) ==
  [j \in 1..(Len(items) - 1) |-> IF j < k THEN items[j] ELSE items[j + 1]]

\* the step let a handler return
Returns == returned' # <<>>
\* the step invoked a handler
Invokes == calls' = calls + 1
\* the step delivered the stock answer the i-th suspended invocation awaits
Answers(i) ==
  /\ i \in 1..Len(ops) /\ ops[i].pc = "stock"
  /\ stockAmount' # NoResponse
  /\ \/ ops' = Others(i)
     \/ ops' = [ops EXCEPT ![i].pc = "catalog"]
\* the step delivered the catalog answer the i-th suspended invocation awaits
Delivers(i) ==
  /\ i \in 1..Len(ops) /\ ops[i].pc = "catalog"
  /\ ops' = Others(i)
  /\ Returns /\ returned'[1].caught # "catalog"
\* the step changed neither the cart nor the storage
Untouched == heap' = heap /\ cart' = cart /\ storage' = storage

\* C1: in every reachable state, whatever the interleaving of the three
\* operations, every item of the in-memory cart has amount >= 1 and no two
\* items have the same product id.
C1_AmountsPositiveIdsUnique ==
  /\ \A k \in 1..Len(cart) : heap[cart[k]].amount >= 1
  /\ \A j, k \in 1..Len(cart) : j # k => heap[cart[j]].id # heap[cart[k]].id

\* an overlapping updateProductAmount has just written a two-item cart
C1_Witness ==
  /\ returned # <<>>
  /\ returned[1].kind = "update" /\ returned[1].overlapped /\ returned[1].wrote
  /\ Len(cart) = 2

\* C2: as long as localStorage.setItem does not throw, the storage holds the
\* serialization of the in-memory cart in every state a caller can observe
\* (nothing is stored only while the cart is still the empty start cart).
C2_StorageMirrorsCart ==
  IF storage = NULL THEN cart = <<>> ELSE storage = <<CartItems>>

\* a mutation has been written: the last handler to return was an addProduct
\* that pushed a second item
C2_Witness ==
  /\ returned # <<>>
  /\ returned[1].kind = "add" /\ returned[1].wrote
  /\ Len(cart) = 2 /\ storage = <<CartItems>>

\* C3: an addProduct whose desired amount (the item's amount plus one, 1 for
\* an absent product) exceeds the stock answer reports out of stock and
\* returns on that answer, before any amount is changed, any catalog request
\* is made and any storage write: neither its invocation nor its answer step
\* changes the cart or the storage.
C3_AddOutOfStockGuard ==
  [][/\ (Invokes /\ ops' # <<>> /\ ops'[Len(ops')].kind = "add" /\ Len(ops') > Len(ops))
          => Untouched
     /\ \A i \in 1..Len(ops) :
          (/\ ops[i].kind = "add"
           /\ Answers(i)
           /\ AmountOf(ItemsOf(ops[i].cart), ops[i].productId) + 1 > stockAmount')
          => /\ ~ops[i].overlapped => ops[i].cart = cart
             /\ Returns
             /\ returned'[1].kind = "add"
             /\ returned'[1].productId = ops[i].productId
             /\ returned'[1].toasts = <<OutOfStockMsg>>
             /\ returned'[1].caught = "none"
             /\ ~returned'[1].wrote
             /\ Untouched]_vars

\* scenario B: the cart holds the product with amount 1, the stock answer is
\* 1, and the addProduct has returned with the out-of-stock toast
C3_Witness ==
  /\ returned # <<>>
  /\ returned[1].kind = "add" /\ ~returned[1].overlapped
  /\ returned[1].toasts = <<OutOfStockMsg>>
  /\ stockAmount = 1
  /\ AmountOf(CartItems, returned[1].productId) = 1

\* the item addProduct makes of the catalog's data
CatalogItem(p) == [id |-> Catalog(p).id, title |-> Catalog(p).title, amount |-> 1]

\* the handler that returned in the step wrote the cart and reported nothing
ReturnsSilently ==
  /\ Returns
  /\ returned'[1].toasts = <<>>
  /\ returned'[1].caught = "none"
\* ... and the storage holds the cart it left
Persisted == storage' = <<CartItems'>>
\* localStorage.setItem threw in the step
SetItemThrows == Returns /\ returned'[1].caught = "storage"

\* C4: a non-overlapping addProduct whose desired amount does not exceed the
\* stock answer, whose requests are answered and whose storage write does not
\* throw: a product of the cart gets its amount raised by exactly one, in
\* place; an absent product is requested from the catalog and appended with
\* the catalog's data and amount 1; the other items keep value and order, and
\* the storage holds the resulting cart.
C4_AddWithinStock ==
  [][\A i \in 1..Len(ops) :
       (ops[i].kind = "add" /\ ~ops[i].overlapped) =>
         LET p == ops[i].productId
         IN /\ (Answers(i) /\ AmountOf(CartItems, p) + 1 <= stockAmount') =>
                 IF Has(CartItems, p)
                 THEN \/ SetItemThrows
                      \/ /\ ReturnsSilently
                         /\ CartItems' = [CartItems EXCEPT
                                            ![PositionOf(CartItems, p)].amount = @ + 1]
                         /\ Persisted
                 ELSE /\ ~Returns
                      /\ ops' = [ops EXCEPT ![i].pc = "catalog"]
                      /\ Untouched
            /\ Delivers(i) =>
                 \/ SetItemThrows
                 \/ /\ ReturnsSilently
                    /\ ~Has(CartItems, p)
                    /\ CartItems' = Append(CartItems, CatalogItem(p))
                    /\ Persisted]_vars

\* a non-overlapping addProduct has raised the first of two items from 1 to 2
C4_Witness ==
  /\ returned # <<>>
  /\ returned[1].kind = "add" /\ ~returned[1].overlapped
  /\ returned[1].wrote /\ returned[1].toasts = <<>>
  /\ Len(cart) = 2
  /\ CartItems[1].id = returned[1].productId /\ CartItems[1].amount = 2
  /\ stockAmount = 2

\* C5: an addProduct that fails unexpectedly (a request rejects, the storage
\* write throws) reports the generic failure and leaves the in-memory cart
\* and the storage as they were.
C5_AddFailureLeavesNoTrace ==
  [][(/\ Returns
      /\ returned'[1].kind = "add"
      /\ returned'[1].caught # "none"
      /\ ~returned'[1].overlapped)
     => /\ returned'[1].toasts = <<AddErrorMsg>>
        /\ CartItems' = CartItems
        /\ storage' = storage]_vars

\* C6: a non-overlapping removeProduct of a product of the cart, whose
\* storage write does not throw, leaves a cart without that product, the
\* other items unchanged in value and order, and the storage holding it.
C6_RemovePresent ==
  [][(/\ Invokes /\ Returns
      /\ returned'[1].kind = "remove"
      /\ ops = <<>>
      /\ Has(CartItems, returned'[1].productId))
     => \/ SetItemThrows
        \/ /\ ReturnsSilently
           /\ CartItems' = Without(CartItems, PositionOf(CartItems, returned'[1].productId))
           /\ ~Has(CartItems', returned'[1].productId)
           /\ Persisted]_vars

\* scenario C and its sibling: the first of two items removed, or the only one
C6_Witness ==
  /\ returned # <<>>
  /\ returned[1].kind = "remove" /\ ~returned[1].overlapped
  /\ returned[1].wrote /\ returned[1].toasts = <<>>
  /\ Len(cart) = 1 /\ CartItems[1].id # returned[1].productId
  /\ returned[1].productId = 1
  /\ storage = <<CartItems>>

\* C7: removeProduct of a product that is not in the cart reports the generic
\* removal failure, changes neither the cart nor the storage and does not
\* call localStorage.setItem.
C7_RemoveAbsent ==
  [][(/\ Invokes /\ Returns
      /\ returned'[1].kind = "remove"
      /\ ~Has(CartItems, returned'[1].productId))
     => /\ returned'[1].toasts = <<RemoveErrorMsg>>
        /\ ~returned'[1].wrote
        /\ Untouched]_vars

\* removeProduct of an absent product has returned, the cart holding another
C7_Witness ==
  /\ returned # <<>>
  /\ returned[1].kind = "remove"
  /\ returned[1].toasts = <<RemoveErrorMsg>> /\ returned[1].caught = "notfound"
  /\ Len(cart) = 1 /\ ~Has(CartItems, returned[1].productId)

C9_UpdateWithinStock ==
  [][\A i \in 1..Len(ops) :
       (/\ ops[i].kind = "update" /\ ~ops[i].overlapped
        /\ Answers(i)
        /\ 1 <= ops[i].amount /\ ops[i].amount <= stockAmount'
        /\ Has(CartItems, ops[i].productId))
       => \/ SetItemThrows
          \/ /\ ReturnsSilently
             /\ CartItems' = [CartItems EXCEPT
                                ![PositionOf(CartItems, ops[i].productId)].amount =
                                  ops[i].amount]
             /\ Persisted]_vars

\* scenario F in small: the second of two items has been set from 1 to 2
C9_Witness ==
  /\ returned # <<>>
  /\ returned[1].kind = "update" /\ ~returned[1].overlapped
  /\ returned[1].wrote /\ returned[1].toasts = <<>>
  /\ returned[1].amount = 2
  /\ Len(cart) = 2
  /\ CartItems[2].id = returned[1].productId /\ CartItems[2].amount = 2
  /\ CartItems[1].amount = 1

\* C10: updateProductAmount with amount > 0 and amount above the stock answer
\* reports out of stock and leaves the cart and the storage unchanged, for a
\* product of the cart or not: an absent product gets the out-of-stock toast,
\* not the generic failure.
C10_UpdateOutOfStock ==
  [][\A i \in 1..Len(ops) :
       (/\ ops[i].kind = "update"
        /\ Answers(i)
        /\ ops[i].amount > 0 /\ ops[i].amount > stockAmount')
       => /\ Returns
          /\ returned'[1].kind = "update"
          /\ returned'[1].toasts = <<OutOfStockMsg>>
          /\ returned'[1].caught = "none"
          /\ ~returned'[1].wrote
          /\ Untouched]_vars

\* updateProductAmount of a product that is not in the cart has returned with
\* the out-of-stock toast
C10_Witness ==
  /\ returned # <<>>
  /\ returned[1].kind = "update" /\ ~returned[1].overlapped
  /\ returned[1].toasts = <<OutOfStockMsg>>
  /\ ~Has(CartItems, returned[1].productId)
  /\ Len(cart) = 1

\* C11: updateProductAmount with 1 <= amount <= the stock answer for a
\* product that is not in the cart reports the generic update failure and
\* leaves the cart and the storage unchanged: no item is created.  The cart is
\* the one of the handler's closure, which is the current one unless another
\* handler ran in between.
C11_UpdateAbsent ==
  [][\A i \in 1..Len(ops) :
       (/\ ops[i].kind = "update"
        /\ Answers(i)
        /\ 1 <= ops[i].amount /\ ops[i].amount <= stockAmount'
        /\ ~Has(ItemsOf(ops[i].cart), ops[i].productId))
       => /\ ~ops[i].overlapped => ops[i].cart = cart
          /\ Returns
          /\ returned'[1].kind = "update"
          /\ returned'[1].toasts = <<UpdateErrorMsg>>
          /\ returned'[1].caught = "notfound"
          /\ ~returned'[1].wrote
          /\ Untouched]_vars

\* a non-overlapping updateProductAmount within stock of a product the cart
\* does not hold has returned, the cart holding another product
C11_Witness ==
  /\ returned # <<>>
  /\ returned[1].kind = "update" /\ ~returned[1].overlapped
  /\ returned[1].caught = "notfound"
  /\ returned[1].amount >= 1 /\ returned[1].amount <= stockAmount
  /\ Len(cart) = 1 /\ ~Has(CartItems, returned[1].productId)

\* the generic failure message of each handler
ErrorMsg(kind) ==
  CASE kind = "add" -> "Erro na adicao do produto"
    [] kind = "remove" -> "Erro na remocao do produto"
    [] kind = "update" -> "Erro na alteracao de quantidade do produto"

\* C12: no handler ends in a rejection or an exception its caller sees:
\* whatever the cart, the input and the outcome of the requests and of the
\* storage write, it settles normally, a suspended one is still pending, and
\* a caught failure shows only as the handler's notification.
C12_NeverRejects ==
  /\ \A i \in 1..Len(ops) : ops[i].settled = "pending"
  /\ returned # <<>> =>
       /\ returned[1].settled = "fulfilled"
       /\ returned[1].caught \in {"none", "stock", "catalog", "storage", "notfound"}
       /\ returned[1].caught # "none" => returned[1].toasts = <<ErrorMsg(returned[1].kind)>>

\* an updateProductAmount whose storage write threw has returned
C12_Witness ==
  /\ returned # <<>>
  /\ returned[1].kind = "update"
  /\ returned[1].caught = "storage"
  /\ returned[1].settled = "fulfilled"

\* C13: a non-overlapping updateProductAmount of a product of the cart whose
\* amount argument is the item's amount leaves the in-memory cart and the
\* storage as they were, whatever the stock answer (below the amount too) and
\* whatever the state it starts from.
C13_UpdateSameAmount ==
  [][(/\ Len(ops) = 1 /\ ~Invokes /\ Returns
      /\ ops[1].kind = "update" /\ ~ops[1].overlapped
      /\ Has(CartItems, ops[1].productId)
      /\ ops[1].amount = AmountOf(CartItems, ops[1].productId))
     => /\ CartItems' = CartItems
        /\ storage' = storage]_vars

\* C14: the provider starts with the cart last persisted under the key
\* (same ids, amounts, metadata and order), empty when nothing is stored;
\* so when every write so far was stored, reloading the page reconstructs
\* the cart that was in memory before the reload.
Remounts == calls' = calls /\ returned' = <<>> /\ stockAmount' = NoResponse

StoredItems == IF storage = NULL THEN <<>> ELSE storage[1]

C14_RoundTrip ==
  /\ CartItems = StoredItems
  /\ [][Remounts =>
          /\ CartItems' = StoredItems
          /\ CartItems' = CartItems
          /\ ops' = <<>>]_vars

C14_Witness ==
  /\ calls > 0 /\ ops = <<>> /\ returned = <<>>
  /\ Len(CartItems) = 2 /\ CartItems[1].id = 2 /\ CartItems[1].amount = 2
  /\ CartItems = StoredItems

\* the step completes, with cart and storage written, the second of two
\* additions of one product that were suspended together and were invoked
\* with the same amount of it in the cart; the first has just completed
SecondAddCompletes ==
  /\ returned # <<>> /\ returned[1].kind = "add"
  /\ returned[1].wrote /\ returned[1].caught = "none"
  /\ Len(ops) = 1 /\ ops[1].kind = "add"
  /\ ops[1].productId = returned[1].productId
  /\ ops[1].before = returned[1].before
  /\ ~Invokes /\ ReturnsSilently /\ returned'[1].wrote

\* C15 as stated: two overlapping additions of one product end with the
\* amount it had when they were invoked plus one, a single increment.
C15_SingleIncrement ==
  [][SecondAddCompletes =>
       AmountOf(CartItems', ops[1].productId) = ops[1].before + 1]_vars

\* C15, amended: two overlapping additions of a product absent from the cart
\* each append their own item of amount 1 to their own copy, and the cart of
\* the one that completes last wins: one item, amount 1. For a product of the
\* cart each addition reads the amount after its stock answer, from the object
\* both share, and adds one to what it finds: when both pass the stock check
\* (and no third call came between) the amount is raised by two.
C15_OverlappingAdds ==
  [][SecondAddCompletes =>
       LET op == ops[1]
           p == op.productId
       IN IF op.productExists = NoRef
          THEN /\ AmountOf(CartItems', p) = 1
               /\ Cardinality(PositionsOf(CartItems', p)) = 1
               /\ op.before = 0
          ELSE /\ AmountOf(CartItems', p) = heap[op.productExists].amount + 1
               /\ calls = 2 => AmountOf(CartItems', p) = op.before + 2]_vars

C15_Witness ==
  /\ calls = 2 /\ ops = <<>> /\ returned # <<>>
  /\ returned[1].kind = "add" /\ returned[1].overlapped
  /\ returned[1].wrote /\ returned[1].caught = "none"
  /\ returned[1].before = 1
  /\ AmountOf(CartItems, returned[1].productId) = 3
  /\ storage = <<CartItems>>

\* the items are all within the fixed stock of their product
WithinFixedStock(items) ==
  \A k \in 1..Len(items) : \A available \in FixedStock[items[k].id] :
    items[k].amount <= available

\* C16: when the stock of each product never changes and the cart starts with
\* every amount within it, then in every reachable state, whatever the
\* interleaving of the operations, every item of the cart in memory and of the
\* persisted cart has an amount within the stock of its product.
C16_WithinStock ==
  /\ WithinFixedStock(CartItems)
  /\ WithinFixedStock(StoredItems)

C16_Witness ==
  /\ returned # <<>> /\ returned[1].kind = "add" /\ returned[1].overlapped
  /\ returned[1].wrote /\ returned[1].caught = "none"
  /\ returned[1].before = 1
  /\ \E available \in FixedStock[returned[1].productId] :
       AmountOf(CartItems, returned[1].productId) = available
  /\ StoredItems = CartItems

\* the step completes, with the cart written, the second of two additions of
\* different products, both absent from the cart when invoked and both
\* suspended together; the first has just completed and written the cart
SecondOfTwoNewCompletes ==
  /\ returned # <<>> /\ returned[1].kind = "add"
  /\ returned[1].wrote /\ returned[1].before = 0
  /\ Len(ops) = 1 /\ ops[1].kind = "add" /\ ops[1].pc = "catalog"
  /\ ops[1].productId # returned[1].productId
  /\ ~Has(ItemsOf(ops[1].cart), returned[1].productId)
  /\ ~Invokes /\ Returns /\ returned'[1].wrote

\* C17: two additions of different products p and q, both absent from the
\* cart, invoked from the same cart before either completes: when both have
\* completed, the cart holds the items it had when they were invoked and the
\* new item of the addition that completed last, not the one of the addition
\* that completed first; so does the storage when the last write is stored.
C17_FirstAdditionLost ==
  [][SecondOfTwoNewCompletes =>
       /\ CartItems' = Append(ItemsOf(ops[1].cart), CatalogItem(ops[1].productId))
       /\ ~Has(CartItems', returned[1].productId)
       /\ Has(CartItems, returned[1].productId)
       /\ ~SetItemThrows => Persisted]_vars

C17_Witness ==
  /\ ops = <<>> /\ returned # <<>> /\ returned[1].kind = "add"
  /\ returned[1].overlapped /\ returned[1].wrote /\ returned[1].caught = "none"
  /\ returned[1].productId = 2
  /\ calls = 2
  /\ heap = <<CatalogItem(1), CatalogItem(2)>>
  /\ CartItems = <<CatalogItem(2)>>
  /\ storage = <<CartItems>>

\* C18: an addProduct(p) or updateProductAmount for p invoked with p in the
\* cart, and a removeProduct(p) that completes while it awaits the stock: when
\* the stock answer comes and passes the check, the handler writes the cart
\* it took when it was invoked, and p is in the cart again, in memory and,
\* when the write is stored, in the storage.
C18_RemovedItemRestored ==
  [][\A i \in 1..Len(ops) :
       LET op == ops[i]
           p == op.productId
       IN (/\ op.kind \in {"add", "update"}
           /\ Has(ItemsOf(op.cart), p) /\ ~Has(CartItems, p)
           /\ Answers(i) /\ ~Invokes /\ Returns
           /\ stockAmount' >= IF op.kind = "add"
                               THEN AmountOf(ItemsOf(op.cart), p) + 1
                               ELSE op.amount)
          => /\ returned'[1].wrote /\ returned'[1].removed
             /\ Has(CartItems', p)
             /\ cart' = op.cart
             /\ AmountOf(CartItems', p) = IF op.kind = "add"
                                          THEN AmountOf(ItemsOf(op.cart), p) + 1
                                          ELSE op.amount
             /\ ~SetItemThrows => Persisted /\ Has(StoredItems', p)]_vars

C18_Witness ==
  /\ ops = <<>> /\ returned # <<>> /\ returned[1].kind = "update"
  /\ returned[1].removed /\ returned[1].wrote /\ returned[1].caught = "none"
  /\ calls = 2
  /\ Has(CartItems, returned[1].productId)
  /\ Has(StoredItems, returned[1].productId)
  /\ storage = <<CartItems>>

\* how the handler that returned in the last step ended
Ending(r) ==
  CASE r.caught = "notfound" -> "item-not-found"
    [] r.caught \in {"stock", "catalog", "storage"} -> "unexpected-failure"
    [] r.caught = "none" /\ r.wrote -> "success"
    [] r.caught = "none" /\ ~r.wrote /\ r.kind = "update" /\ NotPositive(r.amount)
         -> "no-op"
    [] OTHER -> "out-of-stock"

C20_EventuallyCompletes ==
  /\ [](\A i \in 1..Len(ops) :
          /\ ops[i].toasts = <<>> /\ ~ops[i].wrote
          /\ ops[i].settled = "pending" /\ ops[i].pc \in {"stock", "catalog"})
  /\ [][/\ ~Untouched => Returns /\ returned'[1].wrote
        /\ Len(ops') < Len(ops) => Returns /\ returned'[1].pc = "done"]_vars
  /\ (ops # <<>>) ~> (ops = <<>>)

C20_Witness ==
  /\ ops = <<>> /\ calls = 2 /\ returned # <<>>
  /\ returned[1].kind = "add" /\ returned[1].overlapped
  /\ returned[1].caught = "catalog" /\ returned[1].pc = "done"
  /\ returned[1].toasts = <<AddErrorMsg>>

====
